---------------------------- MODULE Spec2Model ----------------------------
(***************************************************************************)
(* Model of agent.py, the Streamlit chat front-end of the RFQ Scanner.     *)
(*                                                                         *)
(* agent.py is a script that Streamlit executes top to bottom once per     *)
(* user event of a browser session.  What survives from one execution to   *)
(* the next is os.environ (written by load_dotenv), the st.cache_resource  *)
(* cache behind get_client, st.session_state.messages, the state of the    *)
(* file_uploader widget and the files on disk.                             *)
(*                                                                         *)
(* Python values are modelled as follows.                                  *)
(*   - an optional string (None or a str) is a sequence of length <= 1:    *)
(*     None is << >>, the string s is <<s>>;                               *)
(*   - a DataFrame is [columns |-> the joined column names,                *)
(*     rows |-> the sequence of its rows], a row being its row number;     *)
(*   - dict[str, DataFrame] is a sequence of [name, df] records in         *)
(*     insertion order;                                                    *)
(*   - CSV text is the sequence of its lines, a line being a record        *)
(*     [kind, name, num]: kind "blank", "sheet" (the "--- SHEET: name      *)
(*     (first num rows) ---" line), "columns" (the column header row),     *)
(*     "row" (data row number num), "text" (a fixed sentence of the        *)
(*     prompt) or "question" (the user's question).                        *)
(***************************************************************************)
EXTENDS Integers, Sequences, FiniteSets, TLC

(***************************************************************************)
(* Bounds of the model and constants of the program.                       *)
(***************************************************************************)
\* max_rows_per_sheet passed by the script (agent.py line 131).
SessionCap == 300
\* Rows a workbook of the session has beyond SessionCap in its largest sheet.
Excess == 1
\* Largest row count of a table handed to the serializer on its own.
MaxRows == 3
\* Largest small row cap handed to the serializer on its own.
MaxCap == 3
\* Caps below zero handed to the serializer on its own: -NegCaps .. -1.
NegCaps == 2
\* Largest number of sheets in a workbook handed to the serializer on its own.
MaxSheets == 2
\* client.responses.create calls in one explored session.
MaxCalls == 2

None == << >>
Str(s) == <<s>>

\* Python truthiness of an optional string: None and "" are falsy.
Truthy(o) == o # None /\ o[1] # ""

Min(a, b) == IF a < b THEN a ELSE b
Max(a, b) == IF a > b THEN a ELSE b

(***************************************************************************)
(* DataFrames and the serializer.                                          *)
(***************************************************************************)
DataFrame(cols, n) == [columns |-> cols, rows |-> [i \in 1..n |-> i]]
Sheet(nm, cols, n) == [name |-> nm, df |-> DataFrame(cols, n)]

Line(k, nm, n) == [kind |-> k, name |-> nm, num |-> n]

\* A faulty head that returns one row too many when the frame has more than
\* n rows (an off-by-one in the slice).
head_off_by_one(df, n) ==
    LET len == Len(df.rows)
        k   == IF n >= 0 THEN Min(n + 1, len) ELSE Max(0, len + n)
    IN  [df EXCEPT !.rows = SubSeq(df.rows, 1, k)]

\* pandas DataFrame.head(n): the first n rows for n >= 0, and all rows but
\* the last -n for n < 0 (df.iloc[:n]), never more than the frame has.
head(df, n) ==
    LET len == Len(df.rows)
        k   == IF n >= 0 THEN Min(n, len) ELSE Max(0, len + n)
    IN  [df EXCEPT !.rows = SubSeq(df.rows, 1, k)]

\* pandas DataFrame.to_csv(index=False): the column header row, then one
\* line per row.
to_csv(df) ==
    <<Line("columns", df.columns, 0)>>
        \o [i \in 1..Len(df.rows) |-> Line("row", "", df.rows[i])]

\* The two lines of f"\n--- SHEET: {sheet_name} (first {n} rows) ---\n".
SheetHeader(sheet_name, max_rows_per_sheet) ==
    <<Line("blank", "", 0), Line("sheet", sheet_name, max_rows_per_sheet)>>

RECURSIVE sheets_to_csv_text(_, _)
sheets_to_csv_text(sheets, max_rows_per_sheet) ==
    IF sheets = << >> THEN << >>
    ELSE LET last == sheets[Len(sheets)]
         IN  sheets_to_csv_text(SubSeq(sheets, 1, Len(sheets) - 1),
                                max_rows_per_sheet)
                 \o SheetHeader(last.name, max_rows_per_sheet)
                 \o to_csv(head(last.df, max_rows_per_sheet))


(***************************************************************************)
(* Configuration: .env and os.environ.                                     *)
(***************************************************************************)
Keys == {"PROJECT_ENDPOINT", "MODEL_DEPLOYMENT_NAME"}
Endpoints == {"https://x", "https://y"}
EndpointValues == {None, Str("")} \cup {Str(e) : e \in Endpoints}
ModelValues == {None, Str(""), Str("m1")}
SettingValues(k) == IF k = "PROJECT_ENDPOINT" THEN EndpointValues ELSE ModelValues
Settings ==
    [PROJECT_ENDPOINT : EndpointValues, MODEL_DEPLOYMENT_NAME : ModelValues]
NoSettings == [PROJECT_ENDPOINT |-> None, MODEL_DEPLOYMENT_NAME |-> None]

\* dotenv.load_dotenv(path) with its default override=False: a key of the
\* file is copied into os.environ only when os.environ does not have it.
load_dotenv(env, file) ==
    [k \in Keys |-> IF env[k] = None /\ file[k] # None THEN file[k] ELSE env[k]]

\* load_env(): the environment after load_dotenv, the two settings read by
\* os.getenv, and whether RuntimeError was raised.
load_env(env, file) ==
    LET e2 == load_dotenv(env, file)
        project_endpoint == e2["PROJECT_ENDPOINT"]
        model_deployment == e2["MODEL_DEPLOYMENT_NAME"]
    IN  [environ          |-> e2,
         raised           |-> ~Truthy(project_endpoint) \/ ~Truthy(model_deployment),
         project_endpoint |-> project_endpoint,
         model_deployment |-> model_deployment]

(***************************************************************************)
(* Excel files.                                                            *)
(***************************************************************************)
Columns == "Item,Qty"
SmallBook == <<Sheet("Sheet1", Columns, 2)>>
RfqBook   == <<Sheet("RFQ", Columns, SessionCap + Excess),
               Sheet("Archive", Columns, 0)>>
Files == {"small.xlsx", "rfq.xlsx", "corrupt.xlsx"}
OptFiles == {None} \cup {Str(f) : f \in Files}
\* What data.xlsx next to the script can be: missing, or a workbook.
LocalFiles == {None, Str("rfq.xlsx")}

\* load_excel_sheets(excel_file): pd.read_excel(excel_file, sheet_name=None)
\* returns the sheets in workbook order, or raises on a file it cannot parse.
load_excel_sheets(excel_file) ==
    CASE excel_file = "small.xlsx" -> [raised |-> FALSE, sheets |-> SmallBook]
      [] excel_file = "rfq.xlsx"   -> [raised |-> FALSE, sheets |-> RfqBook]
      [] OTHER                     -> [raised |-> TRUE,  sheets |-> << >>]

\* A faulty data loading that goes on with no sheets instead of st.stop()
\* when there is neither an upload nor data.xlsx.
LoadSheets_no_stop(upl, local) ==
    IF upl # None
    THEN LET r == load_excel_sheets(upl[1])
         IN  [end |-> IF r.raised THEN "load_failure" ELSE "ok", sheets |-> r.sheets]
    ELSE IF local = None
    THEN [end |-> "ok", sheets |-> << >>]
    ELSE LET r == load_excel_sheets(local[1])
         IN  [end |-> IF r.raised THEN "load_failure" ELSE "ok", sheets |-> r.sheets]

\* A faulty data loading that adds the uploaded sheets to those of data.xlsx
\* instead of replacing them.
LoadSheets_merge(upl, local) ==
    LET base == IF local = None THEN << >> ELSE load_excel_sheets(local[1]).sheets
    IN  IF upl # None
        THEN LET r == load_excel_sheets(upl[1])
             IN  [end |-> IF r.raised THEN "load_failure" ELSE "ok",
                  sheets |-> base \o r.sheets]
        ELSE IF local = None
        THEN [end |-> "no_data", sheets |-> << >>]
        ELSE LET r == load_excel_sheets(local[1])
             IN  [end |-> IF r.raised THEN "load_failure" ELSE "ok", sheets |-> r.sheets]

\* Lines 119-128: the uploaded file if there is one, else data.xlsx next to
\* the script; "stop" when neither exists.
LoadSheets(upl, local) ==
    IF upl # None
    THEN LET r == load_excel_sheets(upl[1])
         IN  [end |-> IF r.raised THEN "load_failure" ELSE "ok", sheets |-> r.sheets]
    ELSE IF local = None
    THEN [end |-> "no_data", sheets |-> << >>]
    ELSE LET r == load_excel_sheets(local[1])
         IN  [end |-> IF r.raised THEN "load_failure" ELSE "ok", sheets |-> r.sheets]

(***************************************************************************)
(* The cached client.                                                      *)
(***************************************************************************)
\* A faulty get_client without @st.cache_resource: every call constructs.
get_client_uncached(c, built, project_endpoint) ==
    [cache       |-> [c EXCEPT ![project_endpoint] = built + 1],
     constructed |-> built + 1,
     client      |-> built + 1]

\* @st.cache_resource get_client(project_endpoint): the cache maps an
\* endpoint to the handle built for it (0: no entry); a miss constructs the
\* credential and the project client and stores the new handle.
get_client(c, built, project_endpoint) ==
    IF c[project_endpoint] # 0
    THEN [cache |-> c, constructed |-> built, client |-> c[project_endpoint]]
    ELSE [cache       |-> [c EXCEPT ![project_endpoint] = built + 1],
          constructed |-> built + 1,
          client      |-> built + 1]

(***************************************************************************)
(* The prompt and the answer.                                              *)
(***************************************************************************)
\* The input= f-string of lines 188-193.
Prompt(data_text, user_prompt) ==
    <<Line("text", "You are given this CSV data:", 0), Line("blank", "", 0)>>
        \o data_text
        \o <<Line("blank", "", 0), Line("blank", "", 0),
             Line("text", "Answer the following question clearly and directly:", 0),
             Line("blank", "", 0),
             Line("question", user_prompt, 0)>>

Questions == {"What is the total?", " ", ""}

\* What client.responses.create does: it returns a response object that may
\* or may not have an output_text attribute, or it raises Exception(error).
Returned(has, text) ==
    [raised |-> FALSE, has_output_text |-> has, output_text |-> text, error |-> ""]
Raised(msg) ==
    [raised |-> TRUE, has_output_text |-> FALSE, output_text |-> None, error |-> msg]
Outcomes ==
    {Returned(TRUE, Str("42")), Returned(TRUE, Str(" ")), Returned(TRUE, Str("")),
     Returned(TRUE, None), Returned(FALSE, None), Raised("Connection error.")}

\* getattr(response, "output_text", None)
getattr_output_text(response) ==
    IF response.has_output_text THEN response.output_text ELSE None

\* Lines 185-197: the text recorded as the answer of the turn.
OutputText(o) ==
    IF o.raised
    THEN "Request failed:\n\n" \o o.error
    ELSE LET v == getattr_output_text(o)
         IN  IF Truthy(v) THEN v[1] ELSE "No output_text returned."

Message(r, c) == [role |-> r, content |-> c]

(***************************************************************************)
(* State.                                                                  *)
(***************************************************************************)
VARIABLES
    dotenv,         \* the .env file next to the script
    environ,        \* os.environ of the Streamlit process
    data_xlsx,      \* the local data.xlsx: None or the file stored there
    uploaded,       \* value of the file_uploader widget: None or a file
    cache,          \* st.cache_resource of get_client: endpoint -> handle
    constructed,    \* credentials / project clients constructed so far
    session_state,  \* st.session_state: is "messages" set, and its list
    rendered,       \* widgets the latest run has put on the page
    pc,             \* "idle", or "blocked": the run is inside responses.create
    request,        \* None or the latest request handed to responses.create
    calls,          \* client.responses.create calls made so far
    orphaned,       \* calls still in flight whose run has been stopped
    lastRun,        \* where the latest run ended
    ser_sheets,     \* serializer on its own: the sheets argument
    ser_cap,        \* serializer on its own: max_rows_per_sheet
    ser_out         \* serializer on its own: None or the returned text

sessionVars ==
    <<dotenv, environ, data_xlsx, uploaded, cache, constructed, session_state,
      rendered, pc, request, calls, orphaned, lastRun>>
serVars == <<ser_sheets, ser_cap, ser_out>>
vars == <<sessionVars, serVars>>

SessionInit ==
    /\ dotenv \in Settings
    /\ environ = NoSettings
    /\ data_xlsx \in LocalFiles
    /\ uploaded = None
    /\ cache = [e \in Endpoints |-> 0]
    /\ constructed = 0
    /\ session_state = [has_messages |-> FALSE, messages |-> << >>]
    /\ rendered = {}
    /\ pc = "idle"
    /\ request = None
    /\ calls = 0
    /\ orphaned = 0
    /\ lastRun = "none"

SerIdle ==
    /\ ser_sheets = << >>
    /\ ser_cap = 0
    /\ ser_out = None

Init == SessionInit /\ SerIdle

(***************************************************************************)
(* One execution of the script, lines 97-201, for a user event that leaves *)
(* the file_uploader with value upl and makes st.chat_input return q.      *)
(*                                                                         *)
(* The execution ends at the RuntimeError of load_env, at st.stop(), at    *)
(* the exception of pd.read_excel, after `if user_prompt:` was false, or   *)
(* it blocks in client.responses.create.  Streamlit keeps the page's       *)
(* widgets live while a run is blocked: an event then stops that run (the  *)
(* stop is delivered as a BaseException at the run's next st.* call, which *)
(* is the exit of st.spinner or st.markdown on line 200, so line 201 is    *)
(* not reached) and executes the script anew.  The call of the stopped run *)
(* stays in flight until it returns; its result is dropped.                *)
(***************************************************************************)
ScriptRun(upl, q) ==
    LET cfg    == load_env(environ, dotenv)
        loaded == LoadSheets(upl, data_xlsx)
        data_text == sheets_to_csv_text(loaded.sheets, SessionCap)
        got    == get_client(cache, constructed, cfg.project_endpoint[1])
        messages == session_state.messages
    IN  /\ environ' = cfg.environ
        /\ uploaded' = upl
        /\ orphaned' = IF pc = "blocked" THEN orphaned + 1 ELSE orphaned
        /\ UNCHANGED <<dotenv, data_xlsx, serVars>>
        /\ IF cfg.raised
           THEN /\ lastRun' = "config_error"
                /\ rendered' = {}
                /\ pc' = "idle"
                /\ UNCHANGED <<cache, constructed, session_state, request, calls>>
           ELSE IF loaded.end # "ok"
           THEN /\ lastRun' = loaded.end
                /\ rendered' = {"file_uploader"}
                /\ pc' = "idle"
                /\ UNCHANGED <<cache, constructed, session_state, request, calls>>
           ELSE /\ cache' = got.cache
                /\ constructed' = got.constructed
                /\ rendered' = {"file_uploader", "preview", "chat_input"}
                /\ IF ~Truthy(q)
                   THEN /\ lastRun' = "no_question"
                        /\ pc' = "idle"
                        /\ session_state' = [has_messages |-> TRUE, messages |-> messages]
                        /\ UNCHANGED <<request, calls>>
                   ELSE /\ lastRun' = "asked"
                        /\ pc' = "blocked"
                        /\ session_state' =
                               [has_messages |-> TRUE,
                                messages |-> Append(messages, Message("user", q[1]))]
                        /\ request' = Str([model  |-> cfg.model_deployment[1],
                                           input  |-> Prompt(data_text, q[1]),
                                           client |-> got.client])
                        /\ calls' = calls + 1

\* The page is opened, or the script is rerun with no widget changed.
Rerun == ScriptRun(uploaded, None)

\* A preview widget (selectbox, slider, multiselect) is changed.
ChangePreview == "preview" \in rendered /\ ScriptRun(uploaded, None)

\* A file is put into the file_uploader, replaced or removed.
ChangeUpload(f) ==
    /\ "file_uploader" \in rendered
    /\ f # uploaded
    /\ ScriptRun(f, None)

\* Text is submitted in the chat input.
SubmitChat(text) ==
    /\ "chat_input" \in rendered
    /\ calls < MaxCalls
    /\ ScriptRun(uploaded, Str(text))

\* Lines 195-201: the call of the blocked run returns or raises; the answer
\* is appended to the transcript and the run ends.
Respond(o) ==
    /\ pc = "blocked"
    /\ pc' = "idle"
    /\ lastRun' = "answered"
    /\ session_state' =
           [session_state EXCEPT
               !.messages = Append(@, Message("assistant", OutputText(o)))]
    /\ UNCHANGED <<dotenv, environ, data_xlsx, uploaded, cache, constructed,
                   rendered, request, calls, orphaned, serVars>>

\* The call of a stopped run returns or raises; the run unwinds at its next
\* st.* call without reaching line 201.
OrphanReturns(o) ==
    /\ orphaned > 0
    /\ orphaned' = orphaned - 1
    /\ UNCHANGED <<dotenv, environ, data_xlsx, uploaded, cache, constructed,
                   session_state, rendered, pc, request, calls, lastRun, serVars>>

\* The .env file is edited: a key that os.environ does not hold yet is set,
\* changed or removed (load_dotenv never reads the other keys again).
EditDotenv(k, v) ==
    /\ environ[k] = None
    /\ v # dotenv[k]
    /\ dotenv' = [dotenv EXCEPT ![k] = v]
    /\ UNCHANGED <<environ, data_xlsx, uploaded, cache, constructed, session_state,
                   rendered, pc, request, calls, orphaned, lastRun, serVars>>

\* data.xlsx is written, replaced or deleted.
WriteDataFile(f) ==
    /\ f # data_xlsx
    /\ data_xlsx' = f
    /\ UNCHANGED <<dotenv, environ, uploaded, cache, constructed, session_state,
                   rendered, pc, request, calls, orphaned, lastRun, serVars>>

Next ==
    \/ Rerun
    \/ ChangePreview
    \/ \E f \in OptFiles : ChangeUpload(f)
    \/ \E text \in Questions : SubmitChat(text)
    \/ \E o \in Outcomes : Respond(o)
    \/ \E o \in Outcomes : OrphanReturns(o)
    \/ \E k \in Keys : \E v \in SettingValues(k) : EditDotenv(k, v)
    \/ \E f \in LocalFiles : WriteDataFile(f)

Spec == Init /\ [][Next]_vars

(***************************************************************************)
(* The serializer on its own: sheets_to_csv_text applied to every workbook *)
(* of at most MaxSheets sheets and every cap of SerCaps.                   *)
(***************************************************************************)
SheetNames == {"A", "B", "C"}
SerRowCounts == (0..MaxRows) \cup {SessionCap + Excess}
SerCaps == ((0 - NegCaps)..MaxCap) \cup {SessionCap}

\* dict keys are unique: the names of a workbook are pairwise distinct.
SerWorkbooks ==
    {w \in UNION {[1..n -> {Sheet(nm, Columns, r) : nm \in SheetNames, r \in SerRowCounts}]
                    : n \in 0..MaxSheets} :
        \A i, j \in DOMAIN w : i # j => w[i].name # w[j].name}

SessionQuiet ==
    /\ SessionInit
    /\ dotenv = NoSettings
    /\ data_xlsx = None

SerInit ==
    /\ SessionQuiet
    /\ ser_sheets \in SerWorkbooks
    /\ ser_cap \in SerCaps
    /\ ser_out = None

Serialize ==
    /\ ser_out = None
    /\ ser_out' = Str(sheets_to_csv_text(ser_sheets, ser_cap))
    /\ UNCHANGED <<ser_sheets, ser_cap, sessionVars>>

SerNext == Serialize

SerSpec == SerInit /\ [][SerNext]_vars

(***************************************************************************)
(* Reading a serialized block back.                                        *)
(***************************************************************************)
\* Positions of the "--- SHEET: ..." lines of a text.
SheetLines(text) == {i \in DOMAIN text : text[i].kind = "sheet"}

\* The lines of the section opened by the sheet line at position i: up to
\* the next sheet line or the end of the text.
SectionEnd(text, i) ==
    LET later == {j \in SheetLines(text) : j > i}
    IN  IF later = {} THEN Len(text)
        ELSE (CHOOSE j \in later : \A k \in later : j <= k) - 1
DataRows(text, i) == {j \in (i + 1)..SectionEnd(text, i) : text[j].kind = "row"}
ColumnRows(text, i) ==
    {j \in (i + 1)..SectionEnd(text, i) : text[j].kind = "columns"}

\* The positions of the sheet lines of a text in order of appearance.
SheetLineSeq(text) ==
    LET S == SheetLines(text)
    IN  [k \in 1..Cardinality(S) |->
            CHOOSE i \in S : Cardinality({j \in S : j < i}) = k - 1]
SectionNames(text) ==
    LET idx == SheetLineSeq(text)
    IN  [k \in DOMAIN idx |-> text[idx[k]].name]
WorkbookNames(sheets) == [k \in DOMAIN sheets |-> sheets[k].name]

\* The serialized block inside a prompt: what lies between the two opening
\* lines and the five closing lines of the f-string.
DataBlock(input) == SubSeq(input, 3, Len(input) - 5)

(***************************************************************************)
(* Vocabulary of the properties.                                           *)
(***************************************************************************)
Transcript == session_state.messages
BlankStrings == {"", " "}
ChatInputs == {None} \cup {Str(t) : t \in Questions}
InFlight == orphaned + (IF pc = "blocked" THEN 1 ELSE 0)
IsPrefix(a, b) == Len(a) <= Len(b) /\ SubSeq(b, 1, Len(a)) = a

\* The setting a run will read: os.environ wins over the .env file.
Effective(k) == IF environ[k] # None THEN environ[k] ELSE dotenv[k]
ConfigMissing == \E k \in Keys : Effective(k) \in {None, Str("")}
DataMissing(upl) == upl = None /\ data_xlsx = None

\* The sheets of the load event of a run: the upload, else data.xlsx.
LatestLoad(upl) ==
    load_excel_sheets(IF upl # None THEN upl[1] ELSE data_xlsx[1]).sheets

(***************************************************************************)
(* Properties of the serializer (checked under SerSpec).                   *)
(***************************************************************************)
SerText == ser_out[1]
SerSections == SheetLineSeq(SerText)

\* C2: for every max_rows_per_sheet <= 0, zero and negative alike, every
\* table's section is its header line and its column-header row and has no
\* data row.
C2_NonPositiveCapHeaderOnly ==
    (ser_out # None /\ ser_cap <= 0) =>
        /\ Len(SerSections) = Len(ser_sheets)
        /\ \A k \in DOMAIN SerSections :
              /\ Cardinality(ColumnRows(SerText, SerSections[k])) = 1
              /\ DataRows(SerText, SerSections[k]) = {}

\* C3: for every cap N >= 0 the text has one section per table and the
\* section of a table of r rows has min(N, r) data rows, so never more
\* than N; this includes the cap 300 of the session on tables of more
\* than 300 rows.
C3_RowCap ==
    (ser_out # None /\ ser_cap >= 0) =>
        /\ Len(SerSections) = Len(ser_sheets)
        /\ \A k \in DOMAIN SerSections :
              /\ Cardinality(DataRows(SerText, SerSections[k]))
                     = Min(ser_cap, Len(ser_sheets[k].df.rows))
              /\ Cardinality(DataRows(SerText, SerSections[k])) <= ser_cap

\* A table of more than 300 rows was serialized with the session's cap and
\* its section has exactly 300 data rows.
C3_Witness ==
    /\ ser_out # None
    /\ ser_cap = SessionCap
    /\ \E k \in DOMAIN ser_sheets :
          /\ Len(ser_sheets[k].df.rows) > SessionCap
          /\ Cardinality(DataRows(SerText, SerSections[k])) = SessionCap

\* The prompt of every request of a session carries at most 300 data rows
\* of any one sheet (the session half of C3, under Spec).
PromptRowCap ==
    request # None =>
        LET block == DataBlock(request[1].input)
        IN  \A i \in SheetLines(block) :
                Cardinality(DataRows(block, i)) <= SessionCap

(***************************************************************************)
(* Properties of the session (checked under Spec).                         *)
(***************************************************************************)
\* C1: a run whose chat input is the empty or a whitespace-only string
\* builds no prompt, makes no call and leaves the transcript as it was.
C1_BlankQuestionRejected ==
    [][\A upl \in OptFiles : \A t \in BlankStrings :
          ScriptRun(upl, Str(t)) =>
              /\ Transcript' = Transcript
              /\ calls' = calls
              /\ request' = request]_vars

\* C4: whenever a completion call raises, the transcript receives the
\* assistant entry "Request failed:\n\n<message>" and the session is ready
\* for the next question.
C4_RequestErrorRecorded ==
    [][\A o \in Outcomes :
          (o.raised /\ (Respond(o) \/ OrphanReturns(o))) =>
              /\ Transcript' = Append(Transcript,
                     Message("assistant", "Request failed:\n\n" \o o.error))
              /\ pc' = "idle"]_vars

\* An output_text that is missing, None, empty or whitespace-only.
BlankOutput(o) ==
    \/ getattr_output_text(o) = None
    \/ getattr_output_text(o)[1] \in BlankStrings

\* C5: when the call of a run returns a response whose output_text is
\* missing, None, empty or whitespace-only, the answer recorded is the
\* marker "No output_text returned.", which is not a "Request failed:" text.
C5_EmptyResponseMarker ==
    [][\A o \in Outcomes :
          (~o.raised /\ BlankOutput(o) /\ Respond(o)) =>
              Transcript' = Append(Transcript,
                     Message("assistant", "No output_text returned."))]_vars

\* C6: a run that finds PROJECT_ENDPOINT or MODEL_DEPLOYMENT_NAME missing or
\* empty, or neither an upload nor data.xlsx, ends before the client is
\* built, before the chat input is read and before any request, and leaves
\* the transcript as it was.
C6_FatalStartupAborts ==
    [][\A upl \in OptFiles : \A q \in ChatInputs :
          (ScriptRun(upl, q) /\ (ConfigMissing \/ DataMissing(upl))) =>
              /\ constructed' = constructed
              /\ cache' = cache
              /\ "chat_input" \notin rendered'
              /\ calls' = calls
              /\ request' = request
              /\ session_state' = session_state
              /\ pc' = "idle"]_vars

\* A run ended at st.stop() for want of data after the session had already
\* sent a request, or ended at the RuntimeError of load_env.
C6_Witness ==
    \/ lastRun = "no_data" /\ calls > 0 /\ "chat_input" \notin rendered
    \/ lastRun = "config_error" /\ constructed = 0 /\ rendered = {}

RolesAlternate ==
    \A i \in DOMAIN Transcript :
        Transcript[i].role = IF i % 2 = 1 THEN "user" ELSE "assistant"

\* C7: the transcript only grows by appending, roles alternate starting
\* with user, and every question that was processed has its assistant
\* entry: between runs the transcript is a sequence of user/assistant pairs.
C7_TranscriptAppendOnlyAlternating ==
    /\ [][IsPrefix(Transcript, Transcript')]_vars
    /\ [](RolesAlternate /\ (pc = "idle" => Len(Transcript) % 2 = 0))

\* C8: every processed question makes exactly one call, a returning or
\* failing call makes no further call, a question is accepted only when the
\* previous one has its assistant entry, and at most one call is in flight.
C8_OneRequestNoOverlap ==
    /\ [][(Len(Transcript') > Len(Transcript)
              /\ Transcript'[Len(Transcript')].role = "user")
            <=> calls' = calls + 1]_vars
    /\ [][\A o \in Outcomes : (Respond(o) \/ OrphanReturns(o)) => calls' = calls]_vars
    /\ [][calls' = calls + 1 => (pc = "idle" /\ Len(Transcript) % 2 = 0)]_vars
    /\ [](InFlight <= 1)

\* C9: the credential and the project client are constructed at most once,
\* and every request is made with the handle of that first construction.
C9_ClientConstructedOnce ==
    /\ constructed <= 1
    /\ request # None => (constructed = 1 /\ request[1].client = 1)

\* Two requests have been made and one client was constructed.
C9_Witness == calls = 2 /\ constructed = 1 /\ request # None

\* C10: the serialized block of a request has exactly one section per sheet
\* of the load event of its run, in workbook order, and nothing else.
C10_NoStaleMerging ==
    [][\A upl \in OptFiles : \A q \in ChatInputs :
          (ScriptRun(upl, q) /\ calls' = calls + 1) =>
              LET block == DataBlock(request'[1].input)
              IN  /\ SectionNames(block) = WorkbookNames(LatestLoad(upl))
                  /\ block = sheets_to_csv_text(LatestLoad(upl), SessionCap)]_vars

\* A second request is in flight whose block is the uploaded small.xlsx
\* alone while data.xlsx holds the sheets of rfq.xlsx.
C10_Witness ==
    /\ calls = 2
    /\ pc = "blocked"
    /\ uploaded = Str("small.xlsx")
    /\ data_xlsx = Str("rfq.xlsx")
    /\ SectionNames(DataBlock(request[1].input)) = <<"Sheet1">>

(***************************************************************************)
(* What does hold of the answer handling (checked under Spec).             *)
(***************************************************************************)
\* The transcript never loses, changes or reorders an entry.
TranscriptAppendOnly == [][IsPrefix(Transcript, Transcript')]_vars

\* A run that is still there when its call raises records the error text
\* and ends; one that is still there when its call returns a missing, None
\* or empty output_text records the marker.
AnswerOfLiveRun ==
    [][\A o \in Outcomes :
          Respond(o) =>
              /\ pc' = "idle"
              /\ Len(Transcript') = Len(Transcript) + 1
              /\ Transcript'[Len(Transcript')].role = "assistant"
              /\ o.raised =>
                     Transcript'[Len(Transcript')].content
                         = "Request failed:\n\n" \o o.error
              /\ (~o.raised /\ ~Truthy(getattr_output_text(o))) =>
                     Transcript'[Len(Transcript')].content
                         = "No output_text returned."]_vars

\* A call is made exactly when a user entry is appended, and never when a
\* call returns or raises.
OneCallPerQuestion ==
    /\ [][(Len(Transcript') > Len(Transcript)
              /\ Transcript'[Len(Transcript')].role = "user")
            <=> calls' = calls + 1]_vars
    /\ [][\A o \in Outcomes : (Respond(o) \/ OrphanReturns(o)) => calls' = calls]_vars

\* A run whose chat input is None or "" makes no call and leaves the
\* transcript as it was.
EmptyQuestionRejected ==
    [][\A upl \in OptFiles : \A q \in {None, Str("")} :
          ScriptRun(upl, q) =>
              /\ Transcript' = Transcript
              /\ calls' = calls
              /\ request' = request]_vars

=============================================================================
